---- MODULE Spec2Model ----
(***************************************************************************)
(* Model of the RAG movie recommender backend (src/src/server.ts): the     *)
(* two request handlers POST /api/ingest/movies and POST /api/recommend,   *)
(* the helpers they call, the zod schemas, and the Supabase side they use  *)
(* (table public.movies, upsert, RPC match_movies).                        *)
(*                                                                         *)
(* Conventions.  An optional JavaScript value is a sequence of length 0    *)
(* (undefined / null / key absent) or 1 (the value).  A string that the    *)
(* code lower-cases is a sequence of one-character strings.  A text built  *)
(* by join('\n') is the sequence of its lines.  Similarities and           *)
(* thresholds are in hundredths (0.25 is 25).                              *)
(***************************************************************************)
EXTENDS Integers, Sequences, FiniteSets, TLC

VARIABLES
  store,      \* public.movies: sequence of rows, in insertion order
  nextId,     \* next identifier gen_random_uuid() hands out
  pc,         \* position of the request in flight
  kind,       \* "none" | "ingest" | "recommend"
  body,       \* req.body of the request in flight
  movies,     \* ingest: parsed.data.movies
  rows,       \* ingest: const rows
  calls,      \* provider / store calls issued and returned during the request
  resp,       \* the response sent
  pre,        \* the store's content when the request arrived
  topN, offset, threshold, rerank,   \* recommend: the destructured parameters
  profile,    \* recommend: joinAnswers(answers)
  qvec,       \* recommend: the profile's embedding
  data,       \* recommend: the rows match_movies returned
  sliced,     \* recommend: the pagination window
  llmText,    \* recommend: chat.response.text()
  rec,        \* canonicalizer harness: the validated movie record
  text,       \* canonicalizer harness: movieTextForEmbedding(rec)
  textDone    \* canonicalizer harness: whether text has been computed

ingVars == <<movies, rows>>
recVars == <<topN, offset, threshold, rerank, profile, qvec, data, sliced, llmText>>
txtVars == <<rec, text, textDone>>
vars == <<store, nextId, pc, kind, body, calls, resp, pre, ingVars, recVars, txtVars>>

----------------------------------------------------------------------------
(* Bounds of the model *)

MaxRows == 2       \* rows the store may hold
MaxBatch == 2      \* records in one ingest body
MaxEntries == 2    \* entries in a list the reasoning model answers

(* Program constants *)

DEFAULT_TOP_N == 5
DEFAULT_SIM_THRESHOLD == 25
MIN_TOP_N == 1
MAX_TOP_N == 50
MAX_OFFSET == 500
MAX_THRESHOLD == 100
MAX_ANSWERS == 10

----------------------------------------------------------------------------
(* Small helpers *)

None == <<>>
Some(x) == <<x>>
IsSome(o) == o # <<>>
Min(a, b) == IF a <= b THEN a ELSE b
Max(a, b) == IF a >= b THEN a ELSE b
SeqsUpTo(S, n) == UNION {[1..k -> S] : k \in 0..n}

RECURSIVE Filter(_, _)
\* filter(Boolean) over an array of lines: drops every element equal to
\* drop, the falsy empty string.
Filter(s, drop) ==
  IF s = <<>> THEN <<>>
  ELSE IF Head(s) = drop THEN Filter(Tail(s), drop)
       ELSE <<Head(s)>> \o Filter(Tail(s), drop)

----------------------------------------------------------------------------
(* JavaScript values *)

\* Boolean(x) for an optional number: undefined and 0 are falsy.
TruthyNumber(o) == IsSome(o) /\ o[1] # 0

\* Boolean(x) for a string: only '' is falsy.
TruthyString(s) == s # ""

\* Boolean(x) for an object: every object is truthy, the empty one included.
TruthyObject(o) == TRUE

LowerChar(c) ==
  CASE c = "U" -> "u" [] c = "P" -> "p" [] c = "H" -> "h" [] c = "E" -> "e"
    [] c = "A" -> "a" [] c = "T" -> "t" [] OTHER -> c

\* String.prototype.toLowerCase
toLowerCase(s) == [i \in DOMAIN s |-> LowerChar(s[i])]

\* Array.prototype.slice(a, b) for 0 <= a <= b
Slice(s, a, b) == SubSeq(s, a + 1, Min(b, Len(s)))

----------------------------------------------------------------------------
(* Schemas: safeParse gives [success, data] *)

\* MovieSchema: title is required; year optional; the others default; keys
\* the schema does not name (id) are stripped from the parsed record.
MovieSchemaOk(raw) == IsSome(raw.title)

MovieSchemaData(raw) ==
  [ title    |-> raw.title[1],
    year     |-> raw.year,
    genres   |-> IF IsSome(raw.genres) THEN raw.genres[1] ELSE <<>>,
    cast     |-> IF IsSome(raw.cast) THEN raw.cast[1] ELSE <<>>,
    plot     |-> IF IsSome(raw.plot) THEN raw.plot[1] ELSE "",
    metadata |-> IF IsSome(raw.metadata) THEN raw.metadata[1] ELSE {} ]

\* IngestBodySchema: { movies: MovieSchema[] .min(1) }
IngestBodySchemaOk(b) ==
  /\ IsSome(b.movies)
  /\ Len(b.movies[1]) >= 1
  /\ \A i \in DOMAIN b.movies[1] : MovieSchemaOk(b.movies[1][i])

IngestBodySchemaData(b) ==
  [i \in DOMAIN b.movies[1] |-> MovieSchemaData(b.movies[1][i])]

\* RecommendBodySchema
RecommendBodySchemaOk(b) ==
  /\ IsSome(b.answers)
  /\ Len(b.answers[1]) >= 1 /\ Len(b.answers[1]) <= MAX_ANSWERS
  /\ IsSome(b.topN) => (b.topN[1] >= MIN_TOP_N /\ b.topN[1] <= MAX_TOP_N)
  /\ IsSome(b.offset) => (b.offset[1] >= 0 /\ b.offset[1] <= MAX_OFFSET)
  /\ IsSome(b.threshold) => (b.threshold[1] >= 0 /\ b.threshold[1] <= MAX_THRESHOLD)

----------------------------------------------------------------------------
(* Helpers of server.ts *)

\* joinAnswers: two preamble lines, then "Q<i>: <answer>" per answer.
joinAnswers(answers) ==
  << <<"preamble1">>, <<"preamble2">> >>
    \o [i \in DOMAIN answers |-> <<"Q", i, answers[i]>>]

\* The six array elements of movieTextForEmbedding before filter(Boolean);
\* '' is the empty line <<>>.
movieTextLines(m) ==
  << <<"Title", m.title>>,
     IF TruthyNumber(m.year) THEN <<"Year", m.year[1]>> ELSE <<>>,
     IF Len(m.genres) # 0 THEN <<"Genres", m.genres>> ELSE <<>>,
     IF Len(m.cast) # 0 THEN <<"Cast", m.cast>> ELSE <<>>,
     IF TruthyString(m.plot) THEN <<"Plot", m.plot>> ELSE <<>>,
     IF TruthyObject(m.metadata) THEN <<"Metadata", m.metadata>> ELSE <<>> >>

movieTextForEmbedding(m) == Filter(movieTextLines(m), <<>>)

\* The row the ingest loop assembles; no id is ever set on it.
IngestRow(m, vector) ==
  [ id |-> None, title |-> m.title, year |-> m.year, genres |-> m.genres,
    cast |-> m.cast, plot |-> m.plot, metadata |-> m.metadata,
    embedding |-> vector ]

----------------------------------------------------------------------------
(* The Supabase side: table public.movies, upsert, RPC match_movies *)

\* 1 - (a <=> b): cosine similarity of two embeddings, in hundredths.  The
\* model's embeddings are the three directions 0, 1, 2.
CosineSim(a, b) == 100 - 50 * (IF a >= b THEN a - b ELSE b - a)

\* The columns match_movies returns for a stored row.
MatchRow(m, query_embedding) ==
  [ id |-> m.id, title |-> m.title, year |-> m.year, genres |-> m.genres,
    plot |-> m.plot, metadata |-> m.metadata,
    score |-> CosineSim(m.embedding, query_embedding) ]

\* MatchWhere without its where clause.
MatchWhereAll(st, query_embedding, sim_threshold) == DOMAIN st

\* where 1 - (m.embedding <=> query_embedding) >= sim_threshold
MatchWhere(st, query_embedding, sim_threshold) ==
  {i \in DOMAIN st : CosineSim(st[i].embedding, query_embedding) >= sim_threshold}

\* order by m.embedding <=> query_embedding: every order of the qualifying
\* rows by ascending distance; rows at equal distance come in any order.
MatchOrders(st, query_embedding, sim_threshold) ==
  LET Q == MatchWhere(st, query_embedding, sim_threshold)
      n == Cardinality(Q)
  IN {o \in [1..n -> Q] :
        /\ \A j, k \in 1..n : j # k => o[j] # o[k]
        /\ \A j, k \in 1..n : j < k =>
             CosineSim(st[o[j]].embedding, query_embedding)
               >= CosineSim(st[o[k]].embedding, query_embedding)}

\* limit match_count
MatchLimit(o, match_count) == SubSeq(o, 1, Min(match_count, Len(o)))

\* The results match_movies may return (one per tie order).
match_movies(st, query_embedding, match_count, sim_threshold) ==
  {[j \in DOMAIN MatchLimit(o, match_count) |-> MatchRow(st[o[j]], query_embedding)] :
     o \in MatchOrders(st, query_embedding, sim_threshold)}

\* upsert of one row: a row that carries the id of a stored row replaces it;
\* any other row is inserted, under its own id or a generated one.
UpsertOne(acc, row) ==
  LET hit == {i \in DOMAIN acc.store : IsSome(row.id) /\ acc.store[i].id = row.id[1]}
      id  == IF IsSome(row.id) THEN row.id[1] ELSE acc.nextId
      new == [row EXCEPT !.id = id]
  IN [ store  |-> IF hit # {}
                  THEN [i \in DOMAIN acc.store |-> IF i \in hit THEN new ELSE acc.store[i]]
                  ELSE Append(acc.store, new),
       nextId |-> IF IsSome(row.id) THEN Max(acc.nextId, id + 1) ELSE acc.nextId + 1,
       data   |-> Append(acc.data, [id |-> id, title |-> row.title]) ]

RECURSIVE UpsertFrom(_, _)
UpsertFrom(acc, rws) ==
  IF rws = <<>> THEN acc ELSE UpsertFrom(UpsertOne(acc, Head(rws)), Tail(rws))

\* supabase.from('movies').upsert(rows).select('id, title'), as one statement
Upsert(st, nid, rws) == UpsertFrom([store |-> st, nextId |-> nid, data |-> <<>>], rws)

----------------------------------------------------------------------------
(* Rerank: parsing the model's answer and merging the reasons *)

\* JSON.parse(text || '[]') throws on text that is not JSON.
JsonParseThrows(txt) == txt.kind = "garbage"

JsonParse(txt) ==
  IF txt.kind = "empty" THEN [shape |-> "array", items |-> <<>>]
  ELSE [shape |-> txt.shape, items |-> txt.items]

\* let reranked = []; try { reranked = JSON.parse(text || '[]') } catch {}
Reranked(txt) ==
  IF JsonParseThrows(txt) THEN [shape |-> "array", items |-> <<>>] ELSE JsonParse(txt)

\* TitleMatches comparing the titles as they are written.
TitleMatchesExact(x, r) == IsSome(x.title) /\ x.title[1] = r.title

\* x.title?.toLowerCase() === r.title?.toLowerCase(), for an entry x that is
\* an object: an absent title gives undefined, which equals no string.
TitleMatches(x, r) == IsSome(x.title) /\ toLowerCase(x.title[1]) = toLowerCase(r.title)

RECURSIVE Find(_, _)
\* reranked.find(...): [threw, found].  Reading .title of a null entry throws.
Find(items, r) ==
  IF items = <<>> THEN [threw |-> FALSE, found |-> None]
  ELSE IF Head(items).isNull THEN [threw |-> TRUE, found |-> None]
  ELSE IF TitleMatches(Head(items), r) THEN [threw |-> FALSE, found |-> Some(Head(items))]
  ELSE Find(Tail(items), r)

\* The callback of sliced.map: a value that is no array has no find method.
FindIn(reranked, r) ==
  IF reranked.shape # "array" THEN [threw |-> TRUE, found |-> None]
  ELSE Find(reranked.items, r)

\* found?.reason ?? null
WhyOf(found) == IF IsSome(found) THEN found[1].reason ELSE None

\* { ...r, why }
WithWhy(r, why) ==
  [ id |-> r.id, title |-> r.title, year |-> r.year, genres |-> r.genres,
    plot |-> r.plot, metadata |-> r.metadata, score |-> r.score, why |-> why ]

\* withReason putting the candidates the model explained first.
withReasonExplainedFirst(sl, reranked) ==
  LET merged == [i \in DOMAIN sl |-> WithWhy(sl[i], WhyOf(FindIn(reranked, sl[i]).found))]
      Explained(c) == IsSome(c.why)
      Unexplained(c) == ~IsSome(c.why)
  IN SelectSeq(merged, Explained) \o SelectSeq(merged, Unexplained)

\* const withReason = sliced.map(...)
withReasonThrows(sl, reranked) == \E i \in DOMAIN sl : FindIn(reranked, sl[i]).threw

withReason(sl, reranked) ==
  [i \in DOMAIN sl |-> WithWhy(sl[i], WhyOf(FindIn(reranked, sl[i]).found))]

\* The projection of the response without rerank; the RPC rows carry no why.
PlainResult(sl) ==
  [i \in DOMAIN sl |->
     [ id |-> sl[i].id, title |-> sl[i].title, year |-> sl[i].year,
       genres |-> sl[i].genres, score |-> sl[i].score, why |-> None,
       metadata |-> sl[i].metadata ]]

----------------------------------------------------------------------------
(* Inputs the environment may send *)

TUp == <<"U", "p">>
THeat == <<"H", "e", "a", "t">>
Titles == {TUp, THeat}

\* Embeddings the embedding model may return.
Vectors == {0, 1, 2}

RawMovie(id, title) ==
  [ id |-> id, title |-> title, year |-> Some(2010), genres |-> None,
    cast |-> None, plot |-> None, metadata |-> None ]

RawMovies ==
  {RawMovie(id, Some(t)) : id \in {None, Some(1)}, t \in Titles}
    \cup {RawMovie(None, None)}

IngestBodies ==
  {[movies |-> None]} \cup {[movies |-> Some(ms)] : ms \in SeqsUpTo(RawMovies, MaxBatch)}

TooManyAnswers == [i \in 1..(MAX_ANSWERS + 1) |-> "a"]

RecommendBodies ==
  [ answers   : {None, Some(<<>>), Some(<<"a">>), Some(TooManyAnswers)},
    topN      : {None, Some(MIN_TOP_N - 1), Some(1), Some(MAX_TOP_N + 1)},
    offset    : {None, Some(1), Some(MAX_OFFSET + 1)},
    threshold : {None, Some(MAX_THRESHOLD), Some(MAX_THRESHOLD + 1)},
    rerank    : {None, Some(TRUE)} ]

Entry(title, reason) == [isNull |-> FALSE, title |-> title, reason |-> reason]
NullEntry == [isNull |-> TRUE, title |-> None, reason |-> None]

Entries ==
  { Entry(Some(<<"U", "P">>), Some("r1")),
    Entry(Some(<<"u", "p">>), None),
    Entry(None, Some("r2")),
    NullEntry }

JsonText(shape, items) == [kind |-> "json", shape |-> shape, items |-> items]

\* Texts the reasoning model may answer.
LlmTexts ==
  { [kind |-> "garbage", shape |-> "none", items |-> <<>>],
    [kind |-> "empty", shape |-> "none", items |-> <<>>],
    JsonText("object", <<>>), JsonText("number", <<>>), JsonText("null", <<>>) }
    \cup {JsonText("array", es) : es \in SeqsUpTo(Entries, MaxEntries)}

----------------------------------------------------------------------------
(* State *)

NoResp == [status |-> 0, inserted |-> 0, ids |-> <<>>, topN |-> <<>>]
Resp400 == [status |-> 400, inserted |-> 0, ids |-> <<>>, topN |-> <<>>]
Resp500 == [status |-> 500, inserted |-> 0, ids |-> <<>>, topN |-> <<>>]
RespIngest(d) ==
  [status |-> 200, inserted |-> Len(d), ids |-> [i \in DOMAIN d |-> d[i].id], topN |-> <<>>]
RespRecommend(results) == [status |-> 200, inserted |-> 0, ids |-> <<>>, topN |-> results]

\* Entries of the call log
EmbedCall(txt) == <<"embed", "call", txt>>
EmbedRet == <<"embed", "ret">>
EmbedThrow == <<"embed", "throw">>
UpsertCall(rws) == <<"upsert", "call", rws>>
UpsertRet == <<"upsert", "ret">>
UpsertError == <<"upsert", "error">>
RpcCall(q, match_count, sim_threshold) == <<"rpc", "call", q, match_count, sim_threshold>>
RpcRet == <<"rpc", "ret">>
RpcError == <<"rpc", "error">>
GenerateCall == <<"generate", "call">>
GenerateRet == <<"generate", "ret">>
GenerateThrow == <<"generate", "throw">>

BlankText == [kind |-> "none", shape |-> "none", items |-> <<>>]
BlankRecord ==
  [title |-> TUp, year |-> None, genres |-> <<>>, cast |-> <<>>, plot |-> "", metadata |-> {}]

IngBlank == movies = <<>> /\ rows = <<>>
RecBlank ==
  /\ topN = 0 /\ offset = 0 /\ threshold = 0 /\ rerank = FALSE
  /\ profile = <<>> /\ qvec = 0 /\ data = <<>> /\ sliced = <<>> /\ llmText = BlankText

Init ==
  /\ store = <<>> /\ nextId = 1
  /\ pc = "idle" /\ kind = "none" /\ body = None
  /\ calls = <<>> /\ resp = NoResp /\ pre = <<>>
  /\ IngBlank /\ RecBlank
  /\ rec = BlankRecord /\ text = <<>> /\ textDone = FALSE

----------------------------------------------------------------------------
(* POST /api/ingest/movies *)

\* safeParse fails: 400, and the handler returns.
IngestReject ==
  /\ pc = "idle"
  /\ \E b \in IngestBodies :
       /\ ~IngestBodySchemaOk(b)
       /\ body' = b
  /\ kind' = "ingest" /\ pre' = store
  /\ resp' = Resp400 /\ pc' = "done"
  /\ UNCHANGED <<store, nextId, calls, ingVars, recVars, txtVars>>

\* IngestAccept with the embeddings requested all at once.
IngestAcceptParallel ==
  /\ pc = "idle"
  /\ \E b \in IngestBodies :
       /\ IngestBodySchemaOk(b)
       /\ Len(store) + Len(b.movies[1]) <= MaxRows
       /\ body' = b
       /\ movies' = IngestBodySchemaData(b)
  /\ kind' = "ingest" /\ pre' = store
  /\ rows' = <<>>
  /\ calls' = [i \in DOMAIN movies' |-> EmbedCall(movieTextForEmbedding(movies'[i]))]
  /\ pc' = "ingest_embed"
  /\ UNCHANGED <<store, nextId, resp, recVars, txtVars>>

\* safeParse succeeds: the loop starts and awaits the first embedding.
IngestAccept ==
  /\ pc = "idle"
  /\ \E b \in IngestBodies :
       /\ IngestBodySchemaOk(b)
       /\ Len(store) + Len(b.movies[1]) <= MaxRows
       /\ body' = b
       /\ movies' = IngestBodySchemaData(b)
  /\ kind' = "ingest" /\ pre' = store
  /\ rows' = <<>>
  /\ calls' = <<EmbedCall(movieTextForEmbedding(movies'[1]))>>
  /\ pc' = "ingest_embed"
  /\ UNCHANGED <<store, nextId, resp, recVars, txtVars>>

\* IngestEmbedOk writing each row to the store as soon as it is embedded.
IngestEmbedOkEager ==
  /\ pc = "ingest_embed"
  /\ \E vector \in Vectors :
       LET i == Len(rows) + 1
           pushed == Append(rows, IngestRow(movies[i], vector))
           u == Upsert(store, nextId, <<IngestRow(movies[i], vector)>>)
       IN /\ rows' = pushed
          /\ store' = u.store
          /\ nextId' = u.nextId
          /\ IF i < Len(movies)
             THEN /\ calls' = calls \o <<EmbedRet, EmbedCall(movieTextForEmbedding(movies[i + 1]))>>
                  /\ pc' = "ingest_embed"
             ELSE /\ calls' = calls \o <<EmbedRet, UpsertCall(<<>>)>>
                  /\ pc' = "ingest_upsert"
  /\ UNCHANGED <<kind, body, resp, pre, movies, recVars, txtVars>>

\* embed() resolves: the row is pushed; the loop awaits the next embedding,
\* or, after the last record, the handler awaits the upsert of all rows.
IngestEmbedOk ==
  /\ pc = "ingest_embed"
  /\ \E vector \in Vectors :
       LET i == Len(rows) + 1
           pushed == Append(rows, IngestRow(movies[i], vector))
       IN /\ rows' = pushed
          /\ IF i < Len(movies)
             THEN /\ calls' = calls \o <<EmbedRet, EmbedCall(movieTextForEmbedding(movies[i + 1]))>>
                  /\ pc' = "ingest_embed"
             ELSE /\ calls' = calls \o <<EmbedRet, UpsertCall(pushed)>>
                  /\ pc' = "ingest_upsert"
  /\ UNCHANGED <<store, nextId, kind, body, resp, pre, movies, recVars, txtVars>>

\* embed() rejects: the catch block answers 500.
IngestEmbedFail ==
  /\ pc = "ingest_embed"
  /\ calls' = Append(calls, EmbedThrow)
  /\ resp' = Resp500 /\ pc' = "done"
  /\ UNCHANGED <<store, nextId, kind, body, pre, ingVars, recVars, txtVars>>

\* The upsert succeeds: the store takes the rows, the handler answers.
IngestUpsertOk ==
  /\ pc = "ingest_upsert"
  /\ LET u == Upsert(store, nextId, rows)
     IN /\ store' = u.store
        /\ nextId' = u.nextId
        /\ resp' = RespIngest(u.data)
  /\ calls' = Append(calls, UpsertRet)
  /\ pc' = "done"
  /\ UNCHANGED <<kind, body, pre, ingVars, recVars, txtVars>>

\* The upsert reports an error: if (error) throw error; the catch answers 500.
IngestUpsertFail ==
  /\ pc = "ingest_upsert"
  /\ calls' = Append(calls, UpsertError)
  /\ resp' = Resp500 /\ pc' = "done"
  /\ UNCHANGED <<store, nextId, kind, body, pre, ingVars, recVars, txtVars>>

----------------------------------------------------------------------------
(* POST /api/recommend *)

\* RecommendReject with the body checked only after the profile is embedded.
RecommendRejectLate ==
  /\ pc = "idle"
  /\ \E b \in RecommendBodies :
       /\ ~RecommendBodySchemaOk(b)
       /\ body' = b
       /\ calls' = <<EmbedCall(joinAnswers(IF IsSome(b.answers) THEN b.answers[1] ELSE <<>>)),
                     EmbedRet>>
  /\ kind' = "recommend" /\ pre' = store
  /\ resp' = Resp400 /\ pc' = "done"
  /\ UNCHANGED <<store, nextId, ingVars, recVars, txtVars>>

\* safeParse fails: 400, and the handler returns.
RecommendReject ==
  /\ pc = "idle"
  /\ \E b \in RecommendBodies :
       /\ ~RecommendBodySchemaOk(b)
       /\ body' = b
  /\ kind' = "recommend" /\ pre' = store
  /\ resp' = Resp400 /\ pc' = "done"
  /\ UNCHANGED <<store, nextId, calls, ingVars, recVars, txtVars>>

\* parsed.data.x ?? default
OrDefault(o, default) == IF IsSome(o) THEN o[1] ELSE default

\* The body is valid: the parameters are read, the profile is built and its
\* embedding is awaited.
RecommendAccept ==
  /\ pc = "idle"
  /\ \E b \in RecommendBodies :
       /\ RecommendBodySchemaOk(b)
       /\ body' = b
       /\ rerank' = OrDefault(b.rerank, FALSE)
       /\ topN' = OrDefault(b.topN, DEFAULT_TOP_N)
       /\ offset' = OrDefault(b.offset, 0)
       /\ threshold' = OrDefault(b.threshold, DEFAULT_SIM_THRESHOLD)
       /\ profile' = joinAnswers(b.answers[1])
  /\ kind' = "recommend" /\ pre' = store
  /\ calls' = <<EmbedCall(profile')>>
  /\ pc' = "rec_embed"
  /\ UNCHANGED <<store, nextId, resp, ingVars, qvec, data, sliced, llmText, txtVars>>

\* MatchCount asking the store for one page only.
MatchCountNoOffset(n, off) == n

\* match_count: topN + offset
MatchCount(n, off) == n + off

RecommendEmbedOk ==
  /\ pc = "rec_embed"
  /\ \E v \in Vectors :
       /\ qvec' = v
       /\ calls' = calls \o <<EmbedRet, RpcCall(v, MatchCount(topN, offset), threshold)>>
  /\ pc' = "rec_rpc"
  /\ UNCHANGED <<store, nextId, kind, body, resp, pre, ingVars,
                 topN, offset, threshold, rerank, profile, data, sliced, llmText, txtVars>>

RecommendEmbedFail ==
  /\ pc = "rec_embed"
  /\ calls' = Append(calls, EmbedThrow)
  /\ resp' = Resp500 /\ pc' = "done"
  /\ UNCHANGED <<store, nextId, kind, body, pre, ingVars, recVars, txtVars>>

\* (data as any[]).slice(offset, offset + topN)
Paginate(d, off, n) == Slice(d, off, off + n)

\* The RPC answers and rerank is off: the window is projected and sent.
RecommendRpcOkPlain ==
  /\ pc = "rec_rpc" /\ ~rerank
  /\ \E d \in match_movies(store, qvec, MatchCount(topN, offset), threshold) :
       /\ data' = d
       /\ sliced' = Paginate(d, offset, topN)
  /\ calls' = Append(calls, RpcRet)
  /\ resp' = RespRecommend(PlainResult(sliced'))
  /\ pc' = "done"
  /\ UNCHANGED <<store, nextId, kind, body, pre, ingVars,
                 topN, offset, threshold, rerank, profile, qvec, llmText, txtVars>>

\* The RPC answers and rerank is on: the prompt is sent to the model.
RecommendRpcOkRerank ==
  /\ pc = "rec_rpc" /\ rerank
  /\ \E d \in match_movies(store, qvec, MatchCount(topN, offset), threshold) :
       /\ data' = d
       /\ sliced' = Paginate(d, offset, topN)
  /\ calls' = calls \o <<RpcRet, GenerateCall>>
  /\ pc' = "rec_llm"
  /\ UNCHANGED <<store, nextId, kind, body, resp, pre, ingVars,
                 topN, offset, threshold, rerank, profile, qvec, llmText, txtVars>>

RecommendRpcFail ==
  /\ pc = "rec_rpc"
  /\ calls' = Append(calls, RpcError)
  /\ resp' = Resp500 /\ pc' = "done"
  /\ UNCHANGED <<store, nextId, kind, body, pre, ingVars, recVars, txtVars>>

\* The model answers and the merge runs to its end.
RecommendLlmMerged ==
  /\ pc = "rec_llm"
  /\ \E t \in LlmTexts :
       /\ ~withReasonThrows(sliced, Reranked(t))
       /\ llmText' = t
       /\ resp' = RespRecommend(withReason(sliced, Reranked(t)))
  /\ calls' = Append(calls, GenerateRet)
  /\ pc' = "done"
  /\ UNCHANGED <<store, nextId, kind, body, pre, ingVars,
                 topN, offset, threshold, rerank, profile, qvec, data, sliced, txtVars>>

\* The model answers and the merge throws a TypeError, which the outer catch
\* turns into a 500.
RecommendLlmTypeError ==
  /\ pc = "rec_llm"
  /\ \E t \in LlmTexts :
       /\ withReasonThrows(sliced, Reranked(t))
       /\ llmText' = t
  /\ calls' = Append(calls, GenerateRet)
  /\ resp' = Resp500 /\ pc' = "done"
  /\ UNCHANGED <<store, nextId, kind, body, pre, ingVars,
                 topN, offset, threshold, rerank, profile, qvec, data, sliced, txtVars>>

\* generateContent rejects.
RecommendLlmFail ==
  /\ pc = "rec_llm"
  /\ calls' = Append(calls, GenerateThrow)
  /\ resp' = Resp500 /\ pc' = "done"
  /\ UNCHANGED <<store, nextId, kind, body, pre, ingVars, recVars, txtVars>>

----------------------------------------------------------------------------
\* The response is sent; the request's locals are gone.
Finish ==
  /\ pc = "done"
  /\ pc' = "idle" /\ kind' = "none" /\ body' = None
  /\ calls' = <<>> /\ resp' = NoResp /\ pre' = <<>>
  /\ movies' = <<>> /\ rows' = <<>>
  /\ topN' = 0 /\ offset' = 0 /\ threshold' = 0 /\ rerank' = FALSE
  /\ profile' = <<>> /\ qvec' = 0 /\ data' = <<>> /\ sliced' = <<>>
  /\ llmText' = BlankText
  /\ UNCHANGED <<store, nextId, txtVars>>

Next ==
  \/ IngestReject \/ IngestAccept \/ IngestEmbedOk \/ IngestEmbedFail
  \/ IngestUpsertOk \/ IngestUpsertFail
  \/ RecommendReject \/ RecommendAccept \/ RecommendEmbedOk \/ RecommendEmbedFail
  \/ RecommendRpcOkPlain \/ RecommendRpcOkRerank \/ RecommendRpcFail
  \/ RecommendLlmMerged \/ RecommendLlmTypeError \/ RecommendLlmFail
  \/ Finish

Spec == Init /\ [][Next]_vars

----------------------------------------------------------------------------
(* The canonicalizer on its own: every validated record, one application *)

Years == {None, Some(0), Some(2010)}
TagLists == {<<>>, <<"g1">>, <<"g1", "g2">>}
Plots == {"", "dream heist"}
Metadatas == {{}, {<<"director", "Nolan">>}}

ValidRecords ==
  [ title : Titles, year : Years, genres : TagLists, cast : TagLists,
    plot : Plots, metadata : Metadatas ]

InitText ==
  /\ store = <<>> /\ nextId = 1
  /\ pc = "idle" /\ kind = "none" /\ body = None
  /\ calls = <<>> /\ resp = NoResp /\ pre = <<>>
  /\ IngBlank /\ RecBlank
  /\ rec \in ValidRecords /\ text = <<>> /\ textDone = FALSE

Canonicalize ==
  /\ ~textDone
  /\ text' = movieTextForEmbedding(rec)
  /\ textDone' = TRUE
  /\ UNCHANGED <<store, nextId, pc, kind, body, calls, resp, pre, ingVars, recVars, rec>>

NextText == Canonicalize

SpecText == InitText /\ [][NextText]_vars

----------------------------------------------------------------------------
(* Properties *)

\* What the request asked for, read from its body.
AskedTopN == IF IsSome(body.topN) THEN body.topN[1] ELSE DEFAULT_TOP_N
AskedOffset == IF IsSome(body.offset) THEN body.offset[1] ELSE 0
AskedThreshold == IF IsSome(body.threshold) THEN body.threshold[1] ELSE DEFAULT_SIM_THRESHOLD
AskedRerank == IsSome(body.rerank) /\ body.rerank[1]

RecommendDone == pc = "done" /\ kind = "recommend"
RecommendSucceeded == RecommendDone /\ resp.status = 200
IngestDone == pc = "done" /\ kind = "ingest"

\* A: the stored items whose similarity to the query vector reaches the threshold
Available ==
  Cardinality({i \in DOMAIN store :
                 100 - 50 * (IF store[i].embedding >= qvec
                             THEN store[i].embedding - qvec
                             ELSE qvec - store[i].embedding) >= AskedThreshold})

\* A provider or the store failed during the request.
SomeCallFailed == \E j \in DOMAIN calls : calls[j][2] \in {"throw", "error"}

\* C1: a successful recommend returns min(topN, max(0, A - offset))
\* candidates, A being the number of stored items at or above the threshold;
\* when A <= offset and no provider or store call failed, the request
\* succeeds with the empty list.
C1_ResultCount ==
  /\ RecommendSucceeded =>
       Len(resp.topN) = Min(AskedTopN, Max(0, Available - AskedOffset))
  /\ (RecommendDone /\ Len(calls) >= 4 /\ ~SomeCallFailed /\ Available <= AskedOffset) =>
       (resp.status = 200 /\ resp.topN = <<>>)

C1_Witness ==
  /\ RecommendSucceeded
  /\ AskedOffset >= 1 /\ Available > AskedOffset
  /\ AskedTopN < Available
  /\ Len(resp.topN) = 1

\* The model's answer is a list of {title, reason} entries.
WellFormed(t) ==
  /\ t.kind = "json" /\ t.shape = "array"
  /\ \A j \in DOMAIN t.items : ~t.items[j].isNull

LlmAnswered == llmText.kind # "none"

\* The fields of a candidate other than why.
SameButWhy(c, r) ==
  /\ c.id = r.id /\ c.title = r.title /\ c.year = r.year /\ c.genres = r.genres
  /\ c.plot = r.plot /\ c.metadata = r.metadata /\ c.score = r.score

\* C2: with rerank on, the response holds the candidates of the pagination
\* window, in the window's order, each with the identifier, title, score and
\* other fields it had before the merge; only why is set.  Every list of
\* {title, reason} entries the model answers gives such a response.
C2_RerankFrame ==
  /\ (RecommendSucceeded /\ AskedRerank) =>
       /\ Len(resp.topN) = Len(sliced)
       /\ \A i \in DOMAIN sliced : SameButWhy(resp.topN[i], sliced[i])
  /\ (RecommendDone /\ LlmAnswered /\ WellFormed(llmText)) =>
       (resp.status = 200 /\ Len(resp.topN) = Len(sliced))

C2_Witness ==
  /\ RecommendSucceeded /\ AskedRerank
  /\ Len(sliced) = 2
  /\ ~IsSome(resp.topN[1].why) /\ IsSome(resp.topN[2].why)
  /\ resp.topN[1].score > resp.topN[2].score

\* C3: whatever text outside the expected form the reasoning model answers
\* (not JSON, or JSON of another shape: an object, a number, null, a list
\* with a null entry), the recommend request succeeds and returns every
\* candidate of the window with why = null.
C3_MalformedNeverAborts ==
  (RecommendDone /\ LlmAnswered /\ ~WellFormed(llmText)) =>
    /\ resp.status = 200
    /\ Len(resp.topN) = Len(sliced)
    /\ \A i \in DOMAIN resp.topN : ~IsSome(resp.topN[i].why)

StoredIds(st) == {st[i].id : i \in DOMAIN st}

\* Every record of the batch carries the identifier of a row stored before.
BatchCarriesStoredIds ==
  /\ IsSome(body.movies)
  /\ \A i \in DOMAIN body.movies[1] :
       /\ IsSome(body.movies[1][i].id)
       /\ body.movies[1][i].id[1] \in StoredIds(pre)

\* C4: ingesting a batch whose records carry the identifiers of stored
\* records replaces those records and creates no row: the store holds the
\* same identifiers, as many rows, as before.
C4_IngestIdempotent ==
  (IngestDone /\ resp.status = 200 /\ BatchCarriesStoredIds) =>
    /\ Len(store) = Len(pre)
    /\ StoredIds(store) = StoredIds(pre)

\* C5: an ingest call in which an embedding or the upsert failed answers one
\* failure and leaves the store as it was when the call arrived; no row is
\* written before the upsert answers.
C5_AllOrNothing ==
  /\ (IngestDone /\ SomeCallFailed) => (resp.status = 500 /\ store = pre)
  /\ (IngestDone /\ resp.status # 200) => store = pre
  /\ (kind = "ingest" /\ pc \in {"ingest_embed", "ingest_upsert"}) => store = pre

C5_Witness ==
  /\ IngestDone /\ resp.status = 500
  /\ Len(rows) >= 1 /\ Len(rows) < Len(movies)
  /\ calls[Len(calls)] = EmbedThrow
  /\ store = pre

\* C6: every candidate of a successful recommend response has a score at or
\* above the request's threshold, given or defaulted.
C6_ScoreFloor ==
  RecommendSucceeded =>
    \A i \in DOMAIN resp.topN : resp.topN[i].score >= AskedThreshold

C6_Witness ==
  /\ RecommendSucceeded /\ AskedRerank
  /\ ~IsSome(body.threshold)
  /\ Len(resp.topN) >= 1
  /\ Available < Len(store)

\* The text the claim describes: the labelled lines, in the fixed order, of
\* the fields that are present or non-empty.
OneIf(cond, line) == IF cond THEN <<line>> ELSE <<>>

ExpectedText(m) ==
  <<(<<"Title", m.title>>)>>
    \o OneIf(IsSome(m.year), <<"Year", IF IsSome(m.year) THEN m.year[1] ELSE 0>>)
    \o OneIf(m.genres # <<>>, <<"Genres", m.genres>>)
    \o OneIf(m.cast # <<>>, <<"Cast", m.cast>>)
    \o OneIf(m.plot # "", <<"Plot", m.plot>>)
    \o OneIf(m.metadata # {}, <<"Metadata", m.metadata>>)

SameLines(a, b) ==
  /\ Len(a) = Len(b)
  /\ \A i \in DOMAIN a : a[i][1] = b[i][1] /\ a[i][2] = b[i][2]

\* C7: movieTextForEmbedding returns the labelled lines of exactly the fields
\* that are present or non-empty: title always, year iff given (0 included),
\* attributes iff the mapping is non-empty.
C7_ItemText == textDone => SameLines(text, ExpectedText(rec))

\* The body breaks a constraint of the request's schema.
IngestBodyInvalid ==
  \/ ~IsSome(body.movies)
  \/ body.movies[1] = <<>>
  \/ \E i \in DOMAIN body.movies[1] : ~IsSome(body.movies[1][i].title)

OutOfRange(o, lo, hi) == IsSome(o) /\ (o[1] < lo \/ o[1] > hi)

RecommendBodyInvalid ==
  \/ ~IsSome(body.answers)
  \/ Len(body.answers[1]) < 1 \/ Len(body.answers[1]) > 10
  \/ OutOfRange(body.topN, 1, 50)
  \/ OutOfRange(body.offset, 0, 500)
  \/ OutOfRange(body.threshold, 0, 100)

\* C8: a request whose body fails validation is answered 400 with no call to
\* the embedding model, the reasoning model or the store, and the store is
\* as it was.
C8_ValidationFirst ==
  /\ (kind = "ingest" /\ IngestBodyInvalid) =>
       (pc = "done" /\ resp.status = 400 /\ calls = <<>> /\ store = pre)
  /\ (kind = "recommend" /\ RecommendBodyInvalid) =>
       (pc = "done" /\ resp.status = 400 /\ calls = <<>> /\ store = pre)

C8_Witness ==
  /\ RecommendDone /\ resp.status = 400
  /\ IsSome(body.answers) /\ Len(body.answers[1]) = 1
  /\ OutOfRange(body.offset, 0, 500)
  /\ store # <<>>

\* Two characters that differ at most in letter case.
CasePairs == {<<"U", "u">>, <<"P", "p">>, <<"H", "h">>, <<"E", "e">>, <<"A", "a">>, <<"T", "t">>}
SameCharIgnoringCase(a, b) == a = b \/ <<a, b>> \in CasePairs \/ <<b, a>> \in CasePairs
SameIgnoringCase(a, b) ==
  /\ Len(a) = Len(b)
  /\ \A i \in DOMAIN a : SameCharIgnoringCase(a[i], b[i])

\* The list the model's answer parses to; [] when it is not a list.
ParsedList == IF llmText.kind = "json" /\ llmText.shape = "array" THEN llmText.items ELSE <<>>

MatchingEntries(c, L) ==
  {j \in DOMAIN L : /\ ~L[j].isNull
                    /\ IsSome(L[j].title)
                    /\ SameIgnoringCase(L[j].title[1], c.title)}

ExpectedWhy(c, L) ==
  LET M == MatchingEntries(c, L)
  IN IF M = {} THEN None
     ELSE L[CHOOSE j \in M : \A k \in M : j <= k].reason

\* C9: in the merged response each candidate's why is the reason of the first
\* entry of the parsed list whose title equals the candidate's ignoring
\* case; null when no entry matches or that entry has no reason.  The merge
\* succeeds on every list of {title, reason} entries.
C9_WhyIsFirstMatch ==
  /\ (RecommendSucceeded /\ AskedRerank) =>
       \A i \in DOMAIN resp.topN :
         resp.topN[i].why = ExpectedWhy(sliced[i], ParsedList)
  /\ (RecommendDone /\ LlmAnswered /\ WellFormed(llmText)) =>
       (resp.status = 200 /\ DOMAIN resp.topN = DOMAIN sliced)

C9_Witness ==
  /\ RecommendSucceeded /\ AskedRerank
  /\ \E i \in DOMAIN sliced :
       /\ Cardinality(MatchingEntries(sliced[i], ParsedList)) = 2
       /\ \E j, k \in MatchingEntries(sliced[i], ParsedList) :
            /\ j < k
            /\ ~IsSome(ParsedList[j].reason) /\ IsSome(ParsedList[k].reason)
       /\ ~IsSome(resp.topN[i].why)
  /\ \E i \in DOMAIN sliced : MatchingEntries(sliced[i], ParsedList) = {}

\* C10: in an ingest call over n records the log of calls is a prefix of
\* embed(r1), return, ..., embed(rn), return, upsert(n rows in input order),
\* answer: each embedding is requested after the one before has returned, and
\* the upsert is issued once, after all n, with the n rows in input order.
C10_IngestCallOrder ==
  (kind = "ingest" /\ ~IngestBodyInvalid) =>
    LET raw == body.movies[1]
        n == Len(raw)
    IN /\ Len(calls) <= 2 * n + 2
       /\ \A j \in DOMAIN calls :
            /\ (j <= 2 * n /\ j % 2 = 1) =>
                 /\ calls[j][1] = "embed" /\ calls[j][2] = "call"
                 /\ Head(calls[j][3])[1] = "Title"
                 /\ Head(calls[j][3])[2] = raw[(j + 1) \div 2].title[1]
            /\ (j <= 2 * n /\ j % 2 = 0) =>
                 /\ calls[j][1] = "embed" /\ calls[j][2] \in {"ret", "throw"}
                 /\ calls[j][2] = "throw" => j = Len(calls)
            /\ j = 2 * n + 1 =>
                 /\ calls[j][1] = "upsert" /\ calls[j][2] = "call"
                 /\ Len(calls[j][3]) = n
                 /\ \A i \in 1..n : calls[j][3][i].title = raw[i].title[1]
            /\ j = 2 * n + 2 =>
                 /\ calls[j][1] = "upsert" /\ calls[j][2] \in {"ret", "error"}

C10_Witness ==
  /\ IngestDone /\ resp.status = 200
  /\ Len(movies) = 2
  /\ movies[1].title # movies[2].title
  /\ Len(calls) = 6

====
